---------------------------- MODULE Spec2Model ----------------------------
(* A model of todore (src/src/main.rs): the TaskList with its mutation,   *)
(* export and import operations, and the command parser.                  *)
(*                                                                        *)
(* Text.  A Rust String is modelled as a sequence of "pieces": each       *)
(* piece is a TLA+ string holding either one character that some          *)
(* operation of the program looks at (a space, a quote, a backslash, a    *)
(* brace, a newline, ...) or an unbroken run of characters none of which  *)
(* any operation of the program looks at individually ("Task 1", "add",   *)
(* "17").  Flat(text) is the String the pieces spell.                     *)
EXTENDS Integers, Sequences, FiniteSets, TLC

VARIABLES
    tasks,      \* TaskList.tasks: Vec<Task>
    call,       \* the TaskList operation called last, with its arguments
    before,     \* TaskList.tasks as it was when that operation was called
    ret,        \* what that operation returned
    toks,       \* the tokens the line parsed last was written from
    line,       \* the line Command::from_str was called with last
    command,    \* what Command::from_str returned for it
    pc,         \* where main is: "start", "loop", or how it ended
    counter,    \* main's counter, the id of the next task added
    file,       \* tasks.json in the working directory when main starts
    error,      \* the error main returned, "" for none
    written     \* the last fs::write of main: the file and the format

listVars == <<tasks, call, before, ret>>
parseVars == <<toks, line, command>>
sessionVars == <<pc, counter, file, error, written>>
vars == <<listVars, parseVars, sessionVars>>

--------------------------------------------------------------------------
(* Bounds of the model.                                                   *)

MaxTasks == 2      \* add is not called on a list of this length
MaxId == 1         \* ids passed to the operations are 0..MaxId
MaxTokens == 5     \* a line has at most this many tokens
MaxAdds == 2       \* a session reads add lines while counter is below this

Ids == 0..MaxId

(* TaskStatus, by its variant names.                                      *)
TaskStatus == {"NotStarted", "InProgress", "Completed"}

(* The descriptions the operations are called with: a plain one and one   *)
(* holding the characters JSON has to escape.                             *)
PlainDescription == <<"Task 1">>
QuotedDescription == <<"say ", "\"", "hi", "\"", " ", "\\", "\n">>
Descriptions == {PlainDescription, QuotedDescription}

--------------------------------------------------------------------------
(* Text helpers.                                                          *)

RECURSIVE Flat(_)
Flat(text) ==
    IF text = <<>> THEN "" ELSE Head(text) \o Flat(Tail(text))

RECURSIVE Concat(_)
Concat(texts) ==
    IF texts = <<>> THEN <<>> ELSE Head(texts) \o Concat(Tail(texts))

(* [T]::join(sep) on a Vec of texts. *)
RECURSIVE Join(_, _)
Join(texts, sep) ==
    IF texts = <<>> THEN <<>>
    ELSE IF Len(texts) = 1 THEN texts[1]
    ELSE texts[1] \o sep \o Join(Tail(texts), sep)

--------------------------------------------------------------------------
(* Task and TaskStatus.                                                   *)

Task_new(id, description) ==
    [id |-> id, description |-> description, status |-> "NotStarted"]

(* TaskStatus_fmt with a bug: the variant's name, as Debug prints it. *)
TaskStatus_fmt_variant_name(status) == status

(* impl fmt::Display for TaskStatus *)
TaskStatus_fmt(status) ==
    CASE status = "NotStarted" -> "Not Started"
      [] status = "InProgress" -> "In Progress"
      [] status = "Completed" -> "Completed"

--------------------------------------------------------------------------
(* Results.  Ok(()) / Ok(text) / Err(message).                            *)

Ok == [ok |-> TRUE, err |-> "", out |-> <<>>]
OkText(text) == [ok |-> TRUE, err |-> "", out |-> text]
Err(message) == [ok |-> FALSE, err |-> message, out |-> <<>>]

--------------------------------------------------------------------------
(* TaskList.                                                              *)

TaskList_new == <<>>

(* add with a bug: a task whose id is in the list replaces the first task *)
(* with that id.                                                          *)
add_merge_by_id(ts, task) ==
    IF \E i \in 1..Len(ts) : ts[i].id = task.id
    THEN [ts EXCEPT ![CHOOSE i \in 1..Len(ts) : ts[i].id = task.id] = task]
    ELSE Append(ts, task)

add(ts, task) == Append(ts, task)

(* remove with a bug: only the first task with the id is removed. *)
remove_first_only(ts, task_id) ==
    IF \E i \in 1..Len(ts) : ts[i].id = task_id
    THEN LET i == CHOOSE i \in 1..Len(ts) :
                      /\ ts[i].id = task_id
                      /\ \A j \in 1..(i - 1) : ts[j].id # task_id
         IN  SubSeq(ts, 1, i - 1) \o SubSeq(ts, i + 1, Len(ts))
    ELSE ts

remove(ts, task_id) == SelectSeq(ts, LAMBDA task : task.id # task_id)

(* self.tasks.iter_mut().find(|task| task.id == task_id): the index of    *)
(* the first task with that id, 0 for None.                               *)
find(ts, task_id) ==
    IF \E i \in 1..Len(ts) : ts[i].id = task_id
    THEN CHOOSE i \in 1..Len(ts) :
            /\ ts[i].id = task_id
            /\ \A j \in 1..(i - 1) : ts[j].id # task_id
    ELSE 0

NotFoundMessage(task_id) ==
    "Task with id " \o ToString(task_id) \o " was not found"

(* update_status with a bug: an id no task has is passed over in silence. *)
update_status_silent(ts, task_id, new_status) ==
    [tasks |-> [i \in 1..Len(ts) |->
                   IF i = find(ts, task_id)
                   THEN [ts[i] EXCEPT !.status = new_status] ELSE ts[i]],
     ret |-> Ok]

update_status(ts, task_id, new_status) ==
    LET i == find(ts, task_id) IN
    IF i # 0
    THEN [tasks |-> [ts EXCEPT ![i].status = new_status], ret |-> Ok]
    ELSE [tasks |-> ts, ret |-> Err(NotFoundMessage(task_id))]

(* update_description with a bug: every task with the id is updated. *)
update_description_all(ts, task_id, new_description) ==
    IF find(ts, task_id) # 0
    THEN [tasks |-> [i \in 1..Len(ts) |->
                        IF ts[i].id = task_id
                        THEN [ts[i] EXCEPT !.description = new_description]
                        ELSE ts[i]],
          ret |-> Ok]
    ELSE [tasks |-> ts, ret |-> Err(NotFoundMessage(task_id))]

update_description(ts, task_id, new_description) ==
    LET i == find(ts, task_id) IN
    IF i # 0
    THEN [tasks |-> [ts EXCEPT ![i].description = new_description], ret |-> Ok]
    ELSE [tasks |-> ts, ret |-> Err(NotFoundMessage(task_id))]

--------------------------------------------------------------------------
(* PlaintextFormatter.                                                    *)

(* format!("{}: {}\t{}", task.id, task.description, task.status) *)
PlaintextLine(task) ==
    <<ToString(task.id), ":", " ">> \o task.description
        \o <<"\t", TaskStatus_fmt(task.status)>>

PlaintextFormatter_format(ts) ==
    Join([i \in 1..Len(ts) |-> PlaintextLine(ts[i])], <<"\n">>)

--------------------------------------------------------------------------
(* JsonFormatter: serde_json::to_string_pretty on the derived Serialize   *)
(* of TaskList, Task and TaskStatus.  The pretty printer puts every       *)
(* member of a non-empty object or array on a line of its own, indented   *)
(* by two spaces a level, and writes ": " after a key.                    *)

Indent(n) == [i \in 1..n |-> "  "]

(* The escapes serde_json writes inside a string literal. *)
EscapePiece(p) ==
    CASE p = "\"" -> <<"\\", "\"">>
      [] p = "\\" -> <<"\\", "\\">>
      [] p = "\n" -> <<"\\", "n">>
      [] p = "\t" -> <<"\\", "t">>
      [] p = "\r" -> <<"\\", "r">>
      [] OTHER -> <<p>>

JsonString(text) ==
    <<"\"">> \o Concat([i \in 1..Len(text) |-> EscapePiece(text[i])])
        \o <<"\"">>

JsonKey(name, depth) ==
    <<"\n">> \o Indent(depth) \o JsonString(<<name>>) \o <<":", " ">>

(* JsonTask with a bug: the status is written by its display name. *)
JsonTask_display_status(task, depth) ==
    <<"{">>
    \o JsonKey("id", depth + 1) \o <<ToString(task.id), ",">>
    \o JsonKey("description", depth + 1)
    \o JsonString(task.description) \o <<",">>
    \o JsonKey("status", depth + 1)
    \o JsonString(<<TaskStatus_fmt(task.status)>>)
    \o <<"\n">> \o Indent(depth) \o <<"}">>

JsonTask(task, depth) ==
    <<"{">>
    \o JsonKey("id", depth + 1) \o <<ToString(task.id), ",">>
    \o JsonKey("description", depth + 1)
    \o JsonString(task.description) \o <<",">>
    \o JsonKey("status", depth + 1) \o JsonString(<<task.status>>)
    \o <<"\n">> \o Indent(depth) \o <<"}">>

JsonTasks(ts, depth) ==
    IF ts = <<>> THEN <<"[", "]">>
    ELSE <<"[">>
         \o Join([i \in 1..Len(ts) |->
                     <<"\n">> \o Indent(depth + 1)
                         \o JsonTask(ts[i], depth + 1)], <<",">>)
         \o <<"\n">> \o Indent(depth) \o <<"]">>

JsonFormatter_format(ts) ==
    <<"{">> \o JsonKey("tasks", 1) \o JsonTasks(ts, 1) \o <<"\n", "}">>

(* TaskList::export_to_string: formatter.format(self). *)
export_to_string(ts, format) ==
    CASE format = "Json" -> OkText(JsonFormatter_format(ts))
      [] format = "Plaintext" -> OkText(PlaintextFormatter_format(ts))

--------------------------------------------------------------------------
(* serde_json::from_str::<TaskList>: the JSON grammar read off the        *)
(* pieces of the text, then the derived Deserialize of TaskList, Task and *)
(* TaskStatus on the value read.                                          *)

Whitespace == {" ", "  ", "\n", "\t", "\r"}

(* The u32 values whose decimal form the texts of the model hold. *)
U32Values == 0..(MaxId + 1)

(* Pieces that spell a JSON number: the values above, u32::MAX + 1 and a  *)
(* negative number.                                                       *)
JsonNumbers == {ToString(n) : n \in U32Values} \cup {"4294967296", "-1"}

(* str::parse::<u32>: Ok(n) for the decimal form of a u32. *)
parse_u32(p) ==
    IF \E n \in U32Values : ToString(n) = p
    THEN [ok |-> TRUE, n |-> CHOOSE n \in U32Values : ToString(n) = p]
    ELSE [ok |-> FALSE, n |-> 0]

(* The piece at position i of s, "" past the end. *)
At(s, i) == IF i <= Len(s) THEN s[i] ELSE ""

RECURSIVE SkipWs(_, _)
SkipWs(s, i) ==
    IF At(s, i) \in Whitespace THEN SkipWs(s, i + 1) ELSE i

(* A JSON value: k is its kind; lit a number's or literal's piece, s a    *)
(* string's text, items an array's values or an object's members.         *)
JsonValue(k, lit, s, items) == [k |-> k, lit |-> lit, s |-> s, items |-> items]
Parsed(v, next) == [ok |-> TRUE, v |-> v, next |-> next]
Failed == [ok |-> FALSE, v |-> JsonValue("none", "", <<>>, <<>>), next |-> 0]

(* The string literal whose opening quote is before position i. *)
RECURSIVE ParseString(_, _, _)
ParseString(s, i, acc) ==
    LET p == At(s, i) IN
    CASE p = "" -> Failed
      [] p = "\"" -> Parsed(JsonValue("str", "", acc, <<>>), i + 1)
      [] p = "\\" ->
            LET e == At(s, i + 1) IN
            CASE e = "\"" -> ParseString(s, i + 2, Append(acc, "\""))
              [] e = "\\" -> ParseString(s, i + 2, Append(acc, "\\"))
              [] e = "/" -> ParseString(s, i + 2, Append(acc, "/"))
              [] e = "n" -> ParseString(s, i + 2, Append(acc, "\n"))
              [] e = "t" -> ParseString(s, i + 2, Append(acc, "\t"))
              [] e = "r" -> ParseString(s, i + 2, Append(acc, "\r"))
              [] OTHER -> Failed
      [] p \in {"\n", "\t", "\r"} -> Failed
      [] OTHER -> ParseString(s, i + 1, Append(acc, p))

RECURSIVE ParseValue(_, _)
RECURSIVE ParseElements(_, _, _)
RECURSIVE ParseMembers(_, _, _)

ParseValue(s, i) ==
    LET p == At(s, i) IN
    CASE p = "\"" -> ParseString(s, i + 1, <<>>)
      [] p = "[" ->
            LET j == SkipWs(s, i + 1) IN
            IF At(s, j) = "]"
            THEN Parsed(JsonValue("arr", "", <<>>, <<>>), j + 1)
            ELSE ParseElements(s, j, <<>>)
      [] p = "{" ->
            LET j == SkipWs(s, i + 1) IN
            IF At(s, j) = "}"
            THEN Parsed(JsonValue("obj", "", <<>>, <<>>), j + 1)
            ELSE ParseMembers(s, j, <<>>)
      [] p \in JsonNumbers -> Parsed(JsonValue("num", p, <<>>, <<>>), i + 1)
      [] p \in {"true", "false", "null"} ->
            Parsed(JsonValue(p, p, <<>>, <<>>), i + 1)
      [] OTHER -> Failed

(* The elements of an array from position i on, acc those read so far. *)
ParseElements(s, i, acc) ==
    LET e == ParseValue(s, i) IN
    IF ~e.ok THEN Failed
    ELSE LET j == SkipWs(s, e.next) IN
         CASE At(s, j) = "," ->
                ParseElements(s, SkipWs(s, j + 1), Append(acc, e.v))
           [] At(s, j) = "]" ->
                Parsed(JsonValue("arr", "", <<>>, Append(acc, e.v)), j + 1)
           [] OTHER -> Failed

(* The members of an object from position i on. *)
ParseMembers(s, i, acc) ==
    IF At(s, i) # "\"" THEN Failed
    ELSE
      LET key == ParseString(s, i + 1, <<>>) IN
      IF ~key.ok THEN Failed
      ELSE
        LET c == SkipWs(s, key.next) IN
        IF At(s, c) # ":" THEN Failed
        ELSE
          LET e == ParseValue(s, SkipWs(s, c + 1)) IN
          IF ~e.ok THEN Failed
          ELSE
            LET j == SkipWs(s, e.next)
                member == [key |-> Flat(key.v.s), val |-> e.v]
            IN  CASE At(s, j) = "," ->
                       ParseMembers(s, SkipWs(s, j + 1), Append(acc, member))
                  [] At(s, j) = "}" ->
                       Parsed(JsonValue("obj", "", <<>>, Append(acc, member)),
                              j + 1)
                  [] OTHER -> Failed

(* A whole text: one value, white space around it, nothing after it. *)
ParseJson(s) ==
    LET r == ParseValue(s, SkipWs(s, 1)) IN
    IF r.ok /\ SkipWs(s, r.next) = Len(s) + 1 THEN r ELSE Failed

(* The members of object v with key name. *)
Members(v, name) == SelectSeq(v.items, LAMBDA m : m.key = name)

(* #[derive(Deserialize)] enum TaskStatus: a unit variant is read from a  *)
(* string naming it, or from an object {"<variant>": null}.               *)
DecodeStatus(v) ==
    CASE v.k = "str" /\ Flat(v.s) \in TaskStatus ->
            [ok |-> TRUE, status |-> Flat(v.s)]
      [] /\ v.k = "obj"
         /\ Len(v.items) = 1
         /\ v.items[1].key \in TaskStatus
         /\ v.items[1].val.k = "null" ->
            [ok |-> TRUE, status |-> v.items[1].key]
      [] OTHER -> [ok |-> FALSE, status |-> "NotStarted"]

(* The fields of a Task in the types read for them. *)
DecodeFields(id, description, status) ==
    LET n == IF id.k = "num" THEN parse_u32(id.lit) ELSE parse_u32("")
        st == DecodeStatus(status)
    IN  IF n.ok /\ description.k = "str" /\ st.ok
        THEN [ok |-> TRUE,
              task |-> [id |-> n.n, description |-> description.s,
                        status |-> st.status]]
        ELSE [ok |-> FALSE, task |-> Task_new(0, <<>>)]

(* #[derive(Deserialize)] struct Task: from an object that has each field *)
(* once (other keys are skipped), or from an array of the three fields.   *)
DecodeTask(v) ==
    CASE v.k = "obj" ->
            IF \A f \in {"id", "description", "status"} :
                    Len(Members(v, f)) = 1
            THEN DecodeFields(Members(v, "id")[1].val,
                              Members(v, "description")[1].val,
                              Members(v, "status")[1].val)
            ELSE [ok |-> FALSE, task |-> Task_new(0, <<>>)]
      [] v.k = "arr" /\ Len(v.items) = 3 ->
            DecodeFields(v.items[1], v.items[2], v.items[3])
      [] OTHER -> [ok |-> FALSE, task |-> Task_new(0, <<>>)]

(* Vec<Task>: from an array, element by element. *)
DecodeTasks(v) ==
    IF v.k = "arr" /\ \A i \in 1..Len(v.items) : DecodeTask(v.items[i]).ok
    THEN [ok |-> TRUE,
          tasks |-> [i \in 1..Len(v.items) |-> DecodeTask(v.items[i]).task]]
    ELSE [ok |-> FALSE, tasks |-> <<>>]

(* #[derive(Deserialize)] struct TaskList. *)
DecodeTaskList(v) ==
    CASE v.k = "obj" /\ Len(Members(v, "tasks")) = 1 ->
            DecodeTasks(Members(v, "tasks")[1].val)
      [] v.k = "arr" /\ Len(v.items) = 1 -> DecodeTasks(v.items[1])
      [] OTHER -> [ok |-> FALSE, tasks |-> <<>>]

serde_json_from_str(text) ==
    LET r == ParseJson(text) IN
    IF r.ok THEN DecodeTaskList(r.v) ELSE [ok |-> FALSE, tasks |-> <<>>]

(* import with a bug: the list is emptied before the text is read. *)
import_clears_first(ts, text) ==
    LET imported == serde_json_from_str(text) IN
    IF imported.ok
    THEN [tasks |-> imported.tasks, ret |-> Ok]
    ELSE [tasks |-> <<>>, ret |-> Err("serde_json::Error")]

(* TaskList::import: the `?` returns the error before self.tasks is       *)
(* assigned.                                                              *)
import(ts, text) ==
    LET imported == serde_json_from_str(text) IN
    IF imported.ok
    THEN [tasks |-> imported.tasks, ret |-> Ok]
    ELSE [tasks |-> ts, ret |-> Err("serde_json::Error")]

--------------------------------------------------------------------------
(* Command, Format, TaskField and Command::from_str.                      *)

(* A Result<Command, _>: kind is the variant, the other fields those of   *)
(* the variants ("" or <<>> where the variant has none).                  *)
NoCommand ==
    [ok |-> FALSE, err |-> "", kind |-> "", val |-> <<>>, id |-> 0,
     field |-> "", new_val |-> <<>>, format |-> "", out_file |-> <<>>]
CommandOk(kind) == [NoCommand EXCEPT !.ok = TRUE, !.kind = kind]
CommandErr(message) == [NoCommand EXCEPT !.err = message]

(* impl FromStr for Format *)
Format_from_str(s) ==
    CASE s \in {"j", "json"} -> [ok |-> TRUE, v |-> "Json"]
      [] s \in {"y", "yaml"} -> [ok |-> TRUE, v |-> "Yaml"]
      [] s \in {"p", "plaintext"} -> [ok |-> TRUE, v |-> "Plaintext"]
      [] OTHER -> [ok |-> FALSE, v |-> "Invalid export format."]

(* impl FromStr for TaskField *)
TaskField_from_str(s) ==
    CASE s \in {"description", "d"} -> [ok |-> TRUE, v |-> "Description"]
      [] s \in {"status", "s"} -> [ok |-> TRUE, v |-> "Status"]
      [] OTHER -> [ok |-> FALSE, v |-> "Invalid field argument"]

(* str::to_lowercase, on the pieces of the model that hold upper case. *)
LowerPiece(p) ==
    CASE p = "STATUS" -> "status"
      [] p = "S" -> "s"
      [] p = "D" -> "d"
      [] p = "Q" -> "q"
      [] p = "A" -> "a"
      [] p = "Buy" -> "buy"
      [] OTHER -> p
to_lowercase(text) == [i \in 1..Len(text) |-> LowerPiece(text[i])]

(* str::split(" "): the texts between the spaces; n spaces give n + 1     *)
(* texts, empty ones where two spaces meet or the text starts or ends     *)
(* with one.  cur is the text read since the last space.                  *)
RECURSIVE SplitFrom(_, _, _)
SplitFrom(text, i, cur) ==
    IF i > Len(text) THEN <<cur>>
    ELSE IF text[i] = " " THEN <<cur>> \o SplitFrom(text, i + 1, <<>>)
    ELSE SplitFrom(text, i + 1, Append(cur, text[i]))

split(text) == SplitFrom(text, 1, <<>>)

(* The add arm with a bug: the rest of the line is the description. *)
from_str_add_rest_of_line(parts) ==
    IF Len(parts) < 2 THEN CommandErr("Invalid arguments for add.")
    ELSE [CommandOk("Add") EXCEPT !.val = Join(Tail(parts), <<" ">>)]

(* The "a" | "add" arm. *)
from_str_add(parts) ==
    IF Len(parts) < 2 THEN CommandErr("Invalid arguments for add.")
    ELSE [CommandOk("Add") EXCEPT !.val = parts[2]]

(* The "r" | "remove" arm. *)
from_str_remove(parts) ==
    IF Len(parts) < 2 THEN CommandErr("Invalid arguments for remove.")
    ELSE LET id == parse_u32(Flat(parts[2])) IN
         IF ~id.ok THEN CommandErr("ParseIntError")
         ELSE [CommandOk("Remove") EXCEPT !.id = id.n]

(* The update arm with a bug: the new value may be left out. *)
from_str_update_short(parts) ==
    IF Len(parts) < 3 THEN CommandErr("Invalid arguments for update.")
    ELSE LET id == parse_u32(Flat(parts[2]))
             field == TaskField_from_str(Flat(to_lowercase(parts[3])))
         IN  IF ~id.ok THEN CommandErr("ParseIntError")
             ELSE IF ~field.ok THEN CommandErr(field.v)
             ELSE [CommandOk("Update") EXCEPT
                      !.id = id.n,
                      !.new_val = IF Len(parts) < 4 THEN <<>> ELSE parts[4],
                      !.field = field.v]

(* The "u" | "update" arm. *)
from_str_update(parts) ==
    IF Len(parts) < 4 THEN CommandErr("Invalid arguments for update.")
    ELSE LET id == parse_u32(Flat(parts[2]))
             field == TaskField_from_str(Flat(to_lowercase(parts[3])))
         IN  IF ~id.ok THEN CommandErr("ParseIntError")
             ELSE IF ~field.ok THEN CommandErr(field.v)
             ELSE [CommandOk("Update") EXCEPT !.id = id.n,
                                              !.new_val = parts[4],
                                              !.field = field.v]

(* The export arm with a bug: the destination may be left out. *)
from_str_export_optional(parts) ==
    IF Len(parts) < 2 THEN CommandErr("Invalid arguments for export.")
    ELSE LET format == Format_from_str(Flat(parts[2])) IN
         IF ~format.ok THEN CommandErr(format.v)
         ELSE [CommandOk("Export") EXCEPT
                  !.format = format.v,
                  !.out_file = IF Len(parts) < 3 THEN <<>> ELSE parts[3]]

(* The "e" | "export" arm. *)
from_str_export(parts) ==
    IF Len(parts) < 3 THEN CommandErr("Invalid arguments for export.")
    ELSE LET format == Format_from_str(Flat(parts[2])) IN
         IF ~format.ok THEN CommandErr(format.v)
         ELSE [CommandOk("Export") EXCEPT !.format = format.v,
                                          !.out_file = parts[3]]

Command_from_str(val) ==
    LET parts == split(val)
        first == Flat(parts[1])
    IN  CASE first \in {"a", "add"} -> from_str_add(parts)
          [] first \in {"r", "remove"} -> from_str_remove(parts)
          [] first \in {"u", "update"} -> from_str_update(parts)
          [] first \in {"q", "quit"} -> CommandOk("Quit")
          [] first \in {"e", "export"} -> from_str_export(parts)
          [] OTHER -> CommandErr("Invalid argument.")

(* The lines Command::from_str is called with: up to MaxTokens tokens     *)
(* with one space between two of them, the first a command word, a word   *)
(* that is none, or empty; the others a number, a word that is no number  *)
(* and no selector, the status selector, the description selector in      *)
(* upper case, a format selector, or empty (two spaces in a row).         *)
CommandWords ==
    {"a", "add", "r", "remove", "u", "update", "e", "export", "q", "quit"}
FirstWords == CommandWords \cup {"help", ""}
ArgWords == {"1", "buy", "s", "D", "json", ""}

Token(w) == IF w = "" THEN <<>> ELSE <<w>>

TokenSeqs ==
    { <<Token(f)>> \o [i \in 1..Len(args) |-> Token(args[i])] :
        f \in FirstWords,
        args \in UNION {[1..n -> ArgWords] : n \in 0..(MaxTokens - 1)} }

--------------------------------------------------------------------------
(* The texts import is called with, besides the text the last call        *)
(* returned.                                                              *)

Formats == {"Json", "Plaintext"}

Quoted(name) == <<"\"", name, "\"">>

SampleOne == <<[id |-> 1, description |-> PlainDescription,
                status |-> "Completed"]>>
SampleTwo == <<[id |-> 0, description |-> QuotedDescription,
                status |-> "InProgress"],
               [id |-> 0, description |-> PlainDescription,
                status |-> "NotStarted"]>>

SampleThree == <<[id |-> 0, description |-> PlainDescription,
                  status |-> "NotStarted"],
                 [id |-> 1, description |-> QuotedDescription,
                  status |-> "NotStarted"],
                 [id |-> 0, description |-> PlainDescription,
                  status |-> "Completed"]>>
(* The list of tests::test_plaintext_formatter, its second task completed. *)
SampleTest == <<[id |-> 1, description |-> <<"Task 1">>,
                 status |-> "NotStarted"],
                [id |-> 2, description |-> <<"Task 2">>,
                 status |-> "Completed"]>>

(* {"tasks":[{"status":"Completed","extra":null,"id":1,"description":"Task 1"}]} *)
CompactReordered ==
    <<"{">> \o Quoted("tasks") \o <<":", "[", "{">>
    \o Quoted("status") \o <<":">> \o Quoted("Completed") \o <<",">>
    \o Quoted("extra") \o <<":", "null", ",">>
    \o Quoted("id") \o <<":", "1", ",">>
    \o Quoted("description") \o <<":">> \o Quoted("Task 1")
    \o <<"}", "]", "}">>

(* {"tasks":[{"id":<id>,"description":"Task 1"<rest>}]} *)
CompactWith(id, rest) ==
    <<"{">> \o Quoted("tasks") \o <<":", "[", "{">>
    \o Quoted("id") \o <<":">> \o id \o <<",">>
    \o Quoted("description") \o <<":">> \o Quoted("Task 1")
    \o rest \o <<"}", "]", "}">>

StatusMember(name) == <<",">> \o Quoted("status") \o <<":">> \o Quoted(name)

WellFormed ==
    { JsonFormatter_format(<<>>),
      JsonFormatter_format(SampleOne),
      JsonFormatter_format(SampleTwo),
      JsonFormatter_format(SampleThree),
      JsonFormatter_format(SampleTest),
      CompactReordered,
      CompactWith(<<ToString(MaxId + 1)>>, StatusMember("InProgress")) }

Malformed ==
    { <<"invalid", " ", "json">>,
      <<>>,
      \* an export cut short, and one with a character after it
      SubSeq(JsonFormatter_format(SampleTwo), 1,
             Len(JsonFormatter_format(SampleTwo)) - 1),
      JsonFormatter_format(SampleOne) \o <<"x">>,
      \* a second task that does not close, after a first that is complete
      SubSeq(JsonFormatter_format(SampleTwo), 1,
             Len(JsonFormatter_format(SampleTwo)) - 8) \o <<"]", "\n", "}">>,
      \* a field missing, a status that is no variant, ids that are no u32
      CompactWith(<<"1">>, <<>>),
      CompactWith(<<"1">>, StatusMember("Done")),
      CompactWith(<<"-1">>, StatusMember("Completed")),
      CompactWith(<<"4294967296">>, StatusMember("Completed")),
      CompactWith(Quoted("1"), StatusMember("Completed")),
      \* a field twice
      CompactWith(<<"1">>, StatusMember("Completed") \o StatusMember("Completed")),
      \* the plain-text export of a list
      PlaintextFormatter_format(SampleOne) }

Payloads == WellFormed \cup Malformed

--------------------------------------------------------------------------
(* The calls.                                                             *)

NoCall ==
    [fn |-> "new", id |-> 0, description |-> <<>>, status |-> "NotStarted",
     format |-> "", text |-> <<>>]

(* No fs::write yet. *)
NoWrite == [out_file |-> <<>>, format |-> ""]

(* tasks.json: whether it exists, and its contents. *)
NoFile == [exists |-> FALSE, text |-> <<>>]
FileOf(text) == [exists |-> TRUE, text |-> text]

(* The state main starts in with tasks.json being f: the TaskList is new  *)
(* and no line is read.                                                   *)
StartWith(f) ==
    /\ tasks = TaskList_new
    /\ call = NoCall
    /\ before = TaskList_new
    /\ ret = Ok
    /\ toks = <<>>
    /\ line = <<>>
    /\ command = NoCommand
    /\ pc = "start"
    /\ counter = 0
    /\ file = f
    /\ error = ""
    /\ written = NoWrite

Init == StartWith(NoFile)

(* A caller calls one operation at a time: it calls when no call is     *)
(* recorded, and Return forgets the call and what it returned.            *)
Idle == call.fn = "new"

Add(id, description) ==
    /\ Idle
    /\ Len(tasks) < MaxTasks
    /\ tasks' = add(tasks, Task_new(id, description))
    /\ call' = [NoCall EXCEPT !.fn = "add", !.id = id,
                              !.description = description]
    /\ before' = tasks
    /\ ret' = Ok
    /\ UNCHANGED <<parseVars, sessionVars>>

Remove(id) ==
    /\ Idle
    /\ tasks' = remove(tasks, id)
    /\ call' = [NoCall EXCEPT !.fn = "remove", !.id = id]
    /\ before' = tasks
    /\ ret' = Ok
    /\ UNCHANGED <<parseVars, sessionVars>>

UpdateStatus(id, status) ==
    LET r == update_status(tasks, id, status) IN
    /\ Idle
    /\ tasks' = r.tasks
    /\ call' = [NoCall EXCEPT !.fn = "update_status", !.id = id,
                              !.status = status]
    /\ before' = tasks
    /\ ret' = r.ret
    /\ UNCHANGED <<parseVars, sessionVars>>

UpdateDescription(id, description) ==
    LET r == update_description(tasks, id, description) IN
    /\ Idle
    /\ tasks' = r.tasks
    /\ call' = [NoCall EXCEPT !.fn = "update_description", !.id = id,
                              !.description = description]
    /\ before' = tasks
    /\ ret' = r.ret
    /\ UNCHANGED <<parseVars, sessionVars>>

Export(format) ==
    /\ Idle
    /\ tasks' = tasks
    /\ call' = [NoCall EXCEPT !.fn = "export_to_string", !.format = format]
    /\ before' = tasks
    /\ ret' = export_to_string(tasks, format)
    /\ UNCHANGED <<parseVars, sessionVars>>

Import(text) ==
    LET r == import(tasks, text) IN
    /\ Idle
    /\ tasks' = r.tasks
    /\ call' = [NoCall EXCEPT !.fn = "import", !.text = text]
    /\ before' = tasks
    /\ ret' = r.ret
    /\ UNCHANGED <<parseVars, sessionVars>>

Return ==
    /\ ~Idle
    /\ call' = NoCall
    /\ before' = TaskList_new
    /\ ret' = Ok
    /\ UNCHANGED <<tasks, parseVars, sessionVars>>

Next ==
    \/ \E id \in Ids, d \in Descriptions : Add(id, d)
    \/ \E id \in Ids : Remove(id)
    \/ \E id \in Ids, s \in TaskStatus : UpdateStatus(id, s)
    \/ \E id \in Ids, d \in Descriptions : UpdateDescription(id, d)
    \/ \E f \in Formats : Export(f)
    \/ \E text \in Payloads \cup {JsonFormatter_format(tasks)} : Import(text)
    \/ Return

Spec == Init /\ [][Next]_vars

--------------------------------------------------------------------------
(* Command::from_str as a function of the line: ParseSpec calls it once,  *)
(* with any of the lines of TokenSeqs.                                    *)

Parse(ts) ==
    /\ toks' = ts
    /\ line' = Join(ts, <<" ">>)
    /\ command' = Command_from_str(line')
    /\ UNCHANGED <<listVars, sessionVars>>

ParseNext ==
    /\ toks = <<>>
    /\ \E ts \in TokenSeqs : Parse(ts)

ParseSpec == Init /\ [][ParseNext]_vars

--------------------------------------------------------------------------
(* main: the start from tasks.json, then the loop that reads a line,      *)
(* parses it and applies the command.                                     *)

(* impl FromStr for TaskStatus *)
TaskStatus_from_str(s) ==
    CASE s \in {"not started", "ns"} -> [ok |-> TRUE, v |-> "NotStarted"]
      [] s \in {"in progress", "ip"} -> [ok |-> TRUE, v |-> "InProgress"]
      [] s \in {"completed", "c"} -> [ok |-> TRUE, v |-> "Completed"]
      [] OTHER -> [ok |-> FALSE, v |-> "Error while parsing task status"]

(* str::trim: the text without the white space it starts and ends with. *)
RECURSIVE trim_start(_)
trim_start(text) ==
    IF text # <<>> /\ Head(text) \in Whitespace
    THEN trim_start(Tail(text)) ELSE text

RECURSIVE trim_end(_)
trim_end(text) ==
    IF text # <<>> /\ text[Len(text)] \in Whitespace
    THEN trim_end(SubSeq(text, 1, Len(text) - 1)) ELSE text

trim(text) == trim_end(trim_start(text))

(* What one turn of the loop leaves: the task list and the counter, the   *)
(* point main is at, the error it returned and the file it wrote.         *)
Turn(ts, n) ==
    [tasks |-> ts, counter |-> n, pc |-> "loop", error |-> "",
     written |-> written]
Failing(ts, n, message) == [Turn(ts, n) EXCEPT !.pc = "failed",
                                               !.error = message]

(* main with a bug: a failing line is reported and the loop goes on. *)
main_match_command_retry(ts, n, cmd, write_ok) ==
    IF ~cmd.ok THEN Turn(ts, n)
    ELSE CASE cmd.kind = "Add" ->
                Turn(add(ts, Task_new(n, cmd.val)), n + 1)
           [] cmd.kind = "Remove" -> Turn(remove(ts, cmd.id), n)
           [] cmd.kind = "Update" /\ cmd.field = "Description" ->
                Turn(update_description(ts, cmd.id, cmd.new_val).tasks, n)
           [] cmd.kind = "Update" /\ cmd.field = "Status" ->
                LET status == TaskStatus_from_str(Flat(cmd.new_val)) IN
                IF ~status.ok THEN Turn(ts, n)
                ELSE Turn(update_status(ts, cmd.id, status.v).tasks, n)
           [] cmd.kind = "Quit" -> [Turn(ts, n) EXCEPT !.pc = "done"]
           [] cmd.kind = "Export" ->
                IF write_ok
                THEN [Turn(ts, n) EXCEPT
                         !.written = [out_file |-> cmd.out_file,
                                      format |-> cmd.format]]
                ELSE Turn(ts, n)

(* The ? on Command::from_str and the match on the command: cmd is what   *)
(* from_str returned, n the counter, write_ok whether fs::write succeeds. *)
main_match_command(ts, n, cmd, write_ok) ==
    IF ~cmd.ok THEN Failing(ts, n, cmd.err)
    ELSE CASE cmd.kind = "Add" ->
                Turn(add(ts, Task_new(n, cmd.val)), n + 1)
           [] cmd.kind = "Remove" -> Turn(remove(ts, cmd.id), n)
           [] cmd.kind = "Update" /\ cmd.field = "Description" ->
                LET r == update_description(ts, cmd.id, cmd.new_val) IN
                IF r.ret.ok THEN Turn(r.tasks, n)
                ELSE Failing(r.tasks, n, r.ret.err)
           [] cmd.kind = "Update" /\ cmd.field = "Status" ->
                LET status == TaskStatus_from_str(Flat(cmd.new_val))
                    r == update_status(ts, cmd.id, status.v)
                IN  IF ~status.ok THEN Failing(ts, n, status.v)
                    ELSE IF r.ret.ok THEN Turn(r.tasks, n)
                    ELSE Failing(r.tasks, n, r.ret.err)
           [] cmd.kind = "Quit" -> [Turn(ts, n) EXCEPT !.pc = "done"]
           [] cmd.kind = "Export" ->
                IF write_ok
                THEN [Turn(ts, n) EXCEPT
                         !.written = [out_file |-> cmd.out_file,
                                      format |-> cmd.format]]
                ELSE Failing(ts, n, "io::Error")

(* fs::read_to_string(tasks_file)? and task_list.import(..)? *)
main_load(ts, f) ==
    IF ~f.exists THEN Failing(ts, 0, "io::Error: NotFound")
    ELSE LET r == import(ts, f.text) IN
         IF r.ret.ok THEN Turn(r.tasks, 0)
         ELSE Failing(r.tasks, 0, r.ret.err)

(* The lines read_line gives the loop: each ends with a newline, but the  *)
(* empty one, which is what read_line leaves at the end of the input.     *)
EndOfInput == <<>>
AddLines ==
    { <<"add", " ", "buy", "\n">>, <<"A", " ", "Buy", "\n">> }
QuitLines ==
    { <<"quit", "\n">>, <<" ", "Q", "\r", "\n">> }
ExportLines ==
    { <<"export", " ", "json", " ", "out", "\n">>,
      <<"e", " ", "y", " ", "out", "\n">>,
      <<"e", " ", "plaintext", " ", "tasks.json", "\n">> }
RemoveLines ==
    { <<"remove", " ", ToString(id), "\n">> : id \in Ids }
UpdateLines ==
    { <<"update", " ", ToString(id), " ", "d", " ", "buy", "\n">> :
        id \in Ids }
      \cup { <<"u", " ", ToString(id), " ", "STATUS", " ", v, "\n">> :
                id \in Ids, v \in {"c", "buy"} }
UnparsedLines ==
    { EndOfInput,
      <<"\n">>,
      <<"help", "\n">>,
      <<"add", "\n">>,
      <<"remove", "\n">>,
      <<"update", " ", "0", " ", "d", "\n">>,
      <<"export", " ", "json", "\n">>,
      <<"remove", " ", "buy", "\n">>,
      <<"update", " ", "-1", " ", "d", " ", "buy", "\n">>,
      <<"update", " ", "0", " ", "buy", " ", "buy", "\n">>,
      <<"export", " ", "buy", " ", "out", "\n">> }
InputLines ==
    AddLines \cup QuitLines \cup ExportLines \cup RemoveLines
        \cup UpdateLines \cup UnparsedLines

(* The tasks.json main may find: none, the export of a list, or a text    *)
(* that is no task list.                                                  *)
SampleZero ==
    <<[id |-> 0, description |-> PlainDescription, status |-> "NotStarted"]>>
SeedLists == {TaskList_new, SampleZero, SampleTwo}
TasksFiles ==
    {NoFile}
        \cup {FileOf(JsonFormatter_format(ts)) :
                ts \in SeedLists}
        \cup {FileOf(<<"invalid json">>)}

SessionInit == \E f \in TasksFiles : StartWith(f)

(* main up to the loop. *)
Startup ==
    /\ pc = "start"
    /\ \E r \in {main_load(tasks, file)} :
          /\ tasks' = r.tasks
          /\ counter' = r.counter
          /\ pc' = r.pc
          /\ error' = r.error
    /\ UNCHANGED <<call, before, ret, parseVars, file, written>>

(* One turn of the loop, reading the line raw. *)
ReadLine(raw, write_ok) ==
    /\ line' = raw
    /\ toks' = split(to_lowercase(trim(raw)))
    /\ command' = Command_from_str(to_lowercase(trim(raw)))
    /\ \E r \in {main_match_command(tasks, counter, command', write_ok)} :
          /\ tasks' = r.tasks
          /\ counter' = r.counter
          /\ pc' = r.pc
          /\ error' = r.error
          /\ written' = r.written
    /\ UNCHANGED <<call, before, ret, file>>

SessionNext ==
    \/ Startup
    \/ /\ pc = "loop"
       /\ counter < MaxAdds
       /\ \E raw \in AddLines : ReadLine(raw, TRUE)
    \/ /\ pc = "loop"
       /\ \E raw \in InputLines \ AddLines, write_ok \in BOOLEAN :
             ReadLine(raw, write_ok)

SessionSpec == SessionInit /\ [][SessionNext]_vars

--------------------------------------------------------------------------
(* Properties of TaskList, checked under Spec.                            *)

Matches(ts, id) == {i \in 1..Len(ts) : ts[i].id = id}

(* C1: after remove(id) no task with that id is in the list, and the      *)
(* tasks with another id are all still there, unchanged and in the order  *)
(* they had; remove returns nothing and never fails.                      *)
C1_RemoveRetainsOthers ==
    call.fn = "remove" =>
        LET kept == (1..Len(before)) \ Matches(before, call.id) IN
        /\ Matches(tasks, call.id) = {}
        /\ Len(tasks) = Cardinality(kept)
        /\ \A i \in kept :
              tasks[Cardinality({j \in kept : j <= i})] = before[i]
        /\ ret = Ok

(* Two tasks with the removed id around one with another id. *)
C1_Witness ==
    /\ call.fn = "remove"
    /\ Len(before) = 3
    /\ Matches(before, call.id) = {1, 3}
    /\ tasks = <<before[2]>>

(* C2: update_status and update_description with an id no task has        *)
(* return Err("Task with id <id> was not found") and leave the list as it *)
(* was.                                                                   *)
C2_UpdateMissingId ==
    (/\ call.fn \in {"update_status", "update_description"}
     /\ Matches(before, call.id) = {}) =>
        /\ ~ret.ok
        /\ ret.err = "Task with id " \o ToString(call.id) \o " was not found"
        /\ tasks = before

C2_Witness ==
    /\ call.fn = "update_description"
    /\ Len(before) = 2
    /\ call.id = 1
    /\ Matches(before, 1) = {}
    /\ ret.err = "Task with id 1 was not found"
    /\ tasks = before

(* C3: update_status and update_description with an id some task has      *)
(* return Ok and write the new value to that field of the first task with *)
(* the id; its id and its other field, every other task (later tasks with *)
(* the same id too), the length and the order stay as they were.          *)
C3_UpdateFirstMatchOnly ==
    (/\ call.fn \in {"update_status", "update_description"}
     /\ Matches(before, call.id) # {}) =>
        \E first \in Matches(before, call.id) :
            /\ \A i \in Matches(before, call.id) : first <= i
            /\ ret = Ok
            /\ Len(tasks) = Len(before)
            /\ \A i \in (1..Len(before)) \ {first} : tasks[i] = before[i]
            /\ tasks[first].id = before[first].id
            /\ IF call.fn = "update_status"
               THEN /\ tasks[first].status = call.status
                    /\ tasks[first].description = before[first].description
               ELSE /\ tasks[first].description = call.description
                    /\ tasks[first].status = before[first].status

(* The first of two tasks with the id gets a status the second has not. *)
C3_Witness ==
    /\ call.fn = "update_status"
    /\ Matches(before, call.id) = {1, 3}
    /\ before[1].status # call.status
    /\ tasks[1].status = call.status
    /\ tasks[3].status # call.status
    /\ tasks[3] = before[3]

(* What import has to make of the well-formed texts. *)
ExpectedImport(text) ==
    CASE text = JsonFormatter_format(<<>>) -> <<>>
      [] text = JsonFormatter_format(SampleOne) -> SampleOne
      [] text = JsonFormatter_format(SampleTwo) -> SampleTwo
      [] text = JsonFormatter_format(SampleThree) -> SampleThree
      [] text = JsonFormatter_format(SampleTest) -> SampleTest
      [] text = CompactReordered -> SampleOne
      [] OTHER -> <<[id |-> MaxId + 1, description |-> <<"Task 1">>,
                     status |-> "InProgress"]>>

(* C4: import of a text that is no serialized task list returns an error  *)
(* and leaves the list as it was; import of a serialized task list        *)
(* returns Ok and leaves exactly the tasks of the text, in its order.     *)
C4_ImportAllOrNothing ==
    call.fn = "import" =>
        /\ call.text \in Malformed =>
              ~ret.ok /\ ret.err = "serde_json::Error" /\ tasks = before
        /\ call.text \in WellFormed =>
              ret = Ok /\ tasks = ExpectedImport(call.text)
        /\ ~ret.ok => tasks = before

(* A text whose first task is complete and whose second is not, imported  *)
(* into a list that holds tasks.                                          *)
C4_Witness ==
    /\ call.fn = "import"
    /\ Len(call.text) > 60
    /\ call.text \in Malformed
    /\ Len(before) = 2
    /\ tasks = before
    /\ ~ret.ok

(* C5: the Json export of a list, imported into an empty list or into    *)
(* another list, returns Ok and gives the same tasks in the same order    *)
(* (stated of the list between two calls: every list the calls reach is   *)
(* the list between two calls); and so does importing it into the list    *)
(* itself.                                                                *)
C5_JsonRoundTrip ==
    /\ Idle =>
          \A target \in {TaskList_new, SampleTwo} :
              LET r == import(target, export_to_string(tasks, "Json").out) IN
              /\ r.ret = Ok
              /\ r.tasks = tasks
    /\ (call.fn = "import" /\ call.text = JsonFormatter_format(before)) =>
          /\ ret = Ok
          /\ tasks = before

(* A list that is none of the samples, with the description that needs    *)
(* escapes, exported and imported.                                        *)
C5_Witness ==
    /\ call.fn = "import"
    /\ call.text = JsonFormatter_format(before)
    /\ Len(before) = 2
    /\ before[1].description = QuotedDescription
    /\ before[1].status = "Completed"
    /\ before[2].id = 1
    /\ tasks = before

(* C6: add returns nothing, never fails, and appends: the list is one     *)
(* longer, the tasks it had are where they were, and the last task is the *)
(* one given, Task::new(id, d) having status NotStarted; also when a task *)
(* with that id is in the list already.                                   *)
C6_AddAppends ==
    call.fn = "add" =>
        /\ ret = Ok
        /\ Len(tasks) = Len(before) + 1
        /\ \A i \in 1..Len(before) : tasks[i] = before[i]
        /\ tasks[Len(tasks)].id = call.id
        /\ tasks[Len(tasks)].description = call.description
        /\ tasks[Len(tasks)].status = "NotStarted"

(* A task added with the id of a task that is in the list, changed. *)
C6_Witness ==
    /\ call.fn = "add"
    /\ Len(before) = 1
    /\ before[1].id = call.id
    /\ before[1].status = "Completed"
    /\ before[1].description # call.description
    /\ Len(tasks) = 2
    /\ tasks[1] = before[1]

DisplayName ==
    [NotStarted |-> "Not Started", InProgress |-> "In Progress",
     Completed |-> "Completed"]

RECURSIVE PlaintextExpected(_)
PlaintextExpected(ts) ==
    IF ts = <<>> THEN ""
    ELSE LET last == ts[Len(ts)]
             rest == SubSeq(ts, 1, Len(ts) - 1)
         IN  (IF rest = <<>> THEN "" ELSE PlaintextExpected(rest) \o "\n")
             \o ToString(last.id) \o ": " \o Flat(last.description)
             \o "\t" \o DisplayName[last.status]

(* C7: the Plaintext export is the tasks in list order, each as           *)
(* "<id>: <description>\t<display name>", joined by "\n" with none at the *)
(* end (the empty string for the empty list), and the list is as it was.  *)
C7_PlaintextExport ==
    (call.fn = "export_to_string" /\ call.format = "Plaintext") =>
        /\ ret.ok
        /\ Flat(ret.out) = PlaintextExpected(before)
        /\ tasks = before

C7_Witness ==
    /\ call.fn = "export_to_string"
    /\ call.format = "Plaintext"
    /\ tasks = SampleTest
    /\ Flat(ret.out) = "1: Task 1\tNot Started\n2: Task 2\tCompleted"

--------------------------------------------------------------------------
(* Properties of Command::from_str, checked under ParseSpec.  A line has  *)
(* been parsed when toks is not empty; toks[1] is its first token.        *)

Word(k) == Flat(toks[k])

(* C8 as the specification states it: "export json", and any export with  *)
(* a format selector and no destination token, parses to an Export of     *)
(* that format.                                                           *)
C8_ExportWithoutDestination ==
    (/\ Len(toks) = 2
     /\ Word(1) \in {"e", "export"}
     /\ Word(2) \in {"j", "json", "y", "yaml", "p", "plaintext"}) =>
        /\ command.ok
        /\ command.kind = "Export"
        /\ Word(2) = "json" => command.format = "Json"

(* C8, amended: an export with a format selector and no destination token *)
(* is refused with "Invalid arguments for export."; with a destination    *)
(* token it parses to an Export of that format whose out_file is that     *)
(* token, whatever follows it.                                            *)
C8_ExportNeedsDestination ==
    (/\ Len(toks) >= 2
     /\ Word(1) \in {"e", "export"}
     /\ Word(2) \in {"j", "json", "y", "yaml", "p", "plaintext"}) =>
        IF Len(toks) = 2
        THEN command = CommandErr("Invalid arguments for export.")
        ELSE /\ command.ok
             /\ command.kind = "Export"
             /\ Word(2) = "json" => command.format = "Json"
             /\ command.out_file = toks[3]

C8_Witness ==
    /\ Flat(line) = "export json"
    /\ ~command.ok
    /\ command.err = "Invalid arguments for export."

(* C9: a line whose first token is no command word is refused, and so is  *)
(* add or remove with fewer than 2 tokens, update with fewer than 4 and   *)
(* export with fewer than 3, with a message that names the command.       *)
C9_TooFewTokensRefused ==
    Len(toks) >= 1 =>
        /\ Word(1) \notin CommandWords =>
              ~command.ok /\ command.err = "Invalid argument."
        /\ (Word(1) \in {"a", "add"} /\ Len(toks) < 2) =>
              ~command.ok /\ command.err = "Invalid arguments for add."
        /\ (Word(1) \in {"r", "remove"} /\ Len(toks) < 2) =>
              ~command.ok /\ command.err = "Invalid arguments for remove."
        /\ (Word(1) \in {"u", "update"} /\ Len(toks) < 4) =>
              ~command.ok /\ command.err = "Invalid arguments for update."
        /\ (Word(1) \in {"e", "export"} /\ Len(toks) < 3) =>
              ~command.ok /\ command.err = "Invalid arguments for export."
        /\ command.ok =>
              Len(toks) >= (CASE command.kind = "Add" -> 2
                              [] command.kind = "Remove" -> 2
                              [] command.kind = "Update" -> 4
                              [] command.kind = "Export" -> 3
                              [] command.kind = "Quit" -> 1)

(* An update that has its id and its field and no value. *)
C9_Witness ==
    /\ Flat(line) = "update 1 s"
    /\ ~command.ok
    /\ command.err = "Invalid arguments for update."

(* C10: add with a second token parses to Add whose val is that token,    *)
(* and update with four tokens or more parses as its first four tokens    *)
(* alone do, to an Update whose new_val is the fourth when the id and the *)
(* field are read; tokens after these change nothing.                     *)
C10_SingleTokenCapture ==
    /\ (Len(toks) >= 2 /\ Word(1) \in {"a", "add"}) =>
          command = [CommandOk("Add") EXCEPT !.val = toks[2]]
    /\ (Len(toks) >= 4 /\ Word(1) \in {"u", "update"}) =>
          /\ command = Command_from_str(Join(SubSeq(toks, 1, 4), <<" ">>))
          /\ command.ok =>
                /\ command.kind = "Update"
                /\ command.new_val = toks[4]
                /\ Word(2) = ToString(command.id)
          /\ (Word(2) = "1" /\ Word(3) \in {"s", "D"}) =>
                /\ command.ok
                /\ command.id = 1
                /\ command.field = (IF Word(3) = "s" THEN "Status"
                                    ELSE "Description")

(* An update of a description with a word after the new value. *)
C10_Witness ==
    /\ Flat(line) = "u 1 D buy json"
    /\ command.ok
    /\ command.kind = "Update"
    /\ command.field = "Description"
    /\ command.new_val = <<"buy">>

--------------------------------------------------------------------------
(* Properties of main, checked under SessionSpec.                         *)

HasId(ts, id) == \E i \in 1..Len(ts) : ts[i].id = id
UniqueIds(ts) == \A i, j \in 1..Len(ts) : ts[i].id = ts[j].id => i = j

(* The error a line of InputLines ends the session with when the task     *)
(* list is ts, "" for a line that does not fail: read off the words of    *)
(* the line.                                                              *)
LineError(raw, ts) ==
    IF raw \in {EndOfInput, <<"\n">>, <<"help", "\n">>}
        THEN "Invalid argument."
    ELSE IF raw = <<"add", "\n">> THEN "Invalid arguments for add."
    ELSE IF raw = <<"remove", "\n">> THEN "Invalid arguments for remove."
    ELSE IF raw = <<"update", " ", "0", " ", "d", "\n">>
        THEN "Invalid arguments for update."
    ELSE IF raw = <<"export", " ", "json", "\n">>
        THEN "Invalid arguments for export."
    ELSE IF raw \in {<<"remove", " ", "buy", "\n">>,
                     <<"update", " ", "-1", " ", "d", " ", "buy", "\n">>}
        THEN "ParseIntError"
    ELSE IF raw = <<"update", " ", "0", " ", "buy", " ", "buy", "\n">>
        THEN "Invalid field argument"
    ELSE IF raw = <<"export", " ", "buy", " ", "out", "\n">>
        THEN "Invalid export format."
    ELSE IF raw \in UpdateLines /\ raw[5] = "STATUS" /\ raw[7] = "buy"
        THEN "Error while parsing task status"
    ELSE IF raw \in UpdateLines
              /\ ~\E id \in Ids : ToString(id) = raw[3] /\ HasId(ts, id)
        THEN "Task with id " \o raw[3] \o " was not found"
    ELSE ""

C11_Turn ==
    /\ pc \in {"start", "loop"}
    /\ pc' = "failed" => tasks' = tasks /\ counter' = counter
    /\ pc = "loop" =>
          IF LineError(line', tasks) # ""
          THEN pc' = "failed" /\ error' = LineError(line', tasks)
          ELSE IF line' \in QuitLines THEN pc' = "done" /\ error' = ""
          ELSE IF line' \in ExportLines
          THEN \/ pc' = "loop" /\ error' = "" /\ tasks' = tasks
               \/ pc' = "failed" /\ error' = "io::Error"
          ELSE pc' = "loop" /\ error' = ""

(* C11: in the loop, a line that does not parse (unknown command, too few *)
(* tokens, an id that is no number, an invalid field or format selector)  *)
(* or whose command fails (update of an id no task has, a status value    *)
(* that is none) ends main with that error and leaves the task list as it *)
(* was; once main has ended, with an error or by quit, no line is read;   *)
(* a quit line ends main without error, and after any other line that     *)
(* succeeds main is in the loop again.                                    *)
C11_FirstFailingLineEndsSession == [][C11_Turn]_vars

(* main has ended on an update of an id no task has, after an add. *)
C11_Witness ==
    /\ pc = "failed"
    /\ line \in UpdateLines
    /\ error = NotFoundMessage(1)
    /\ counter > 0
    /\ tasks # <<>>

(* C12: when main starts and tasks.json does not exist, main reaches the  *)
(* loop with an empty task list; when tasks.json holds a well-formed      *)
(* list, main reaches the loop with exactly the tasks of the file.        *)
C12_SeededOnlyIfFileExists ==
    [][pc = "start" =>
          /\ ~file.exists => pc' = "loop" /\ tasks' = TaskList_new
          /\ \A ts \in SeedLists :
                file = FileOf(JsonFormatter_format(ts)) =>
                    pc' = "loop" /\ tasks' = ts]_vars

(* C13: if the task list imported from tasks.json has pairwise distinct   *)
(* ids, no two tasks of the list share an id, whatever lines the loop     *)
(* has read.                                                              *)
C13_SessionIdsUnique ==
    (/\ pc # "start"
     /\ file.exists
     /\ serde_json_from_str(file.text).ok
     /\ UniqueIds(serde_json_from_str(file.text).tasks))
        => UniqueIds(tasks)

==========================================================================
